---- MODULE Spec2Model ----
(***************************************************************************)
(* Model of db.go of tracecatcher: the bulk insert builders, the per event *)
(* type BatchInsert mappers of eventDefs, and ensureDatabaseSchema.        *)
(*                                                                         *)
(* A SQL text is a sequence of the pieces the code writes to its           *)
(* strings.Builder; a decimal number is the sequence of its digits.        *)
(***************************************************************************)
EXTENDS Integers, Sequences, FiniteSets, TLC

VARIABLES
    call,       \* arguments of the builder call under test
    sql,        \* text returned by the builder
    bpc,        \* "call" before the builder ran, "ret" after
    et,         \* the event type whose BatchInsert runs
    pc,         \* "loop" while ranging over evs, "done" after return
    seen,       \* number of events of evs consumed so far
    ev,         \* the event of the last iteration
    outcome,    \* "kept", or the skip message logged for ev
    values,     \* flat mappers: the values slice
    rowCount,   \* flat mappers: rowCount
    b,          \* the pgx.Batch: queued [sql, args]
    kept,       \* the positions in evs of the events that were not skipped
    reterr,     \* the error BatchInsert returned, Nil for nil
    spc,        \* ensureDatabaseSchema: "begin", "loop", "done"
    tx,         \* the transaction: "none", "open", "committed", "aborted", "rolledback"
    db,         \* the objects that exist in the database
    db0,        \* the objects that existed when ensureDatabaseSchema was called
    txdb,       \* the objects that exist inside the open transaction
    ranged,     \* the event types the range loop has visited
    failure,    \* the first call on the connection that failed, Nil if none
    commitCalled, \* tx.Commit was called
    err,        \* the error ensureDatabaseSchema returns, Nil for nil
    prev        \* the previous ensureDatabaseSchema call: whether it returned nil, and
                \* the database before and after it; Nil if there was none

buildVars == <<call, sql, bpc>>
mapVars == <<et, pc, seen, ev, outcome, values, rowCount, b, kept, reterr>>
schemaVars == <<spc, tx, db, db0, txdb, ranged, failure, commitCalled, err, prev>>
vars == <<buildVars, mapVars, schemaVars>>

----------------------------------------------------------------------------
(* Bounds *)
MaxCols == 4
MaxRows == 4
MaxEvs == 2
MaxTopics == 2

----------------------------------------------------------------------------
(* strconv.Itoa and helpers of the text model *)

Digit == <<"0", "1", "2", "3", "4", "5", "6", "7", "8", "9">>

IsDigit(t) == \E d \in 1..10 : Digit[d] = t

DigitVal(t) == (CHOOSE d \in 1..10 : Digit[d] = t) - 1

RECURSIVE Itoa(_)
Itoa(n) == IF n < 10 THEN <<Digit[n + 1]>>
           ELSE Itoa(n \div 10) \o <<Digit[(n % 10) + 1]>>

RECURSIVE Join(_, _)
Join(elems, sep) ==
    IF Len(elems) = 0 THEN <<>>
    ELSE IF Len(elems) = 1 THEN <<elems[1]>>
    ELSE <<elems[1], sep>> \o Join(Tail(elems), sep)

----------------------------------------------------------------------------
(* buildBulkInsert *)

\* the inner loop over columns: writes "$idx" for c = from .. K-1
RECURSIVE Placeholders(_, _, _, _)
Placeholders(c, K, idx, sep) ==
    IF c >= K THEN <<>>
    ELSE (IF c > 0 THEN <<sep>> ELSE <<>>)
         \o <<"$">> \o Itoa(idx + 1)
         \o Placeholders(c + 1, K, idx + 1, sep)

\* the outer loop with idx restarting in every row
RECURSIVE BulkRowsSameIdx(_, _, _, _)
BulkRowsSameIdx(r, rows, K, idx) ==
    IF r >= rows THEN <<>>
    ELSE (IF r > 0 THEN <<",">> ELSE <<>>)
         \o <<"(">> \o Placeholders(0, K, idx, ", ") \o <<")">>
         \o BulkRowsSameIdx(r + 1, rows, K, idx)

\* the outer loop over rows; idx is shared by all rows
RECURSIVE BulkRows(_, _, _, _)
BulkRows(r, rows, K, idx) ==
    IF r >= rows THEN <<>>
    ELSE (IF r > 0 THEN <<",">> ELSE <<>>)
         \o <<"(">> \o Placeholders(0, K, idx, ", ") \o <<")">>
         \o BulkRows(r + 1, rows, K, idx + K)

buildBulkInsert(table, columns, rows) ==
    <<"INSERT INTO ", table, "(">> \o Join(columns, ", ") \o <<") VALUES ">>
    \o BulkRows(0, rows, Len(columns), 0)

----------------------------------------------------------------------------
(* buildBulkInsertParentChild *)

SubQuery(parentTable) == <<"(select id from new_", parentTable, ")">>

\* child columns 1 .. K-1 of one child row, each preceded by ","
RECURSIVE ChildPlaceholders(_, _, _)
ChildPlaceholders(c, K, idx) ==
    IF c >= K THEN <<>>
    ELSE <<",", "$">> \o Itoa(idx + 1) \o ChildPlaceholders(c + 1, K, idx + 1)

\* the child rows with the column loop starting at c = 0
RECURSIVE ChildRowsFromZero(_, _, _, _, _)
ChildRowsFromZero(r, childRowCount, K, idx, parentTable) ==
    IF r >= childRowCount THEN <<>>
    ELSE (IF r > 0 THEN <<",">> ELSE <<>>)
         \o <<"(">> \o SubQuery(parentTable)
         \o ChildPlaceholders(0, K, idx) \o <<")">>
         \o ChildRowsFromZero(r + 1, childRowCount, K, idx + K, parentTable)

RECURSIVE ChildRows(_, _, _, _, _)
ChildRows(r, childRowCount, K, idx, parentTable) ==
    IF r >= childRowCount THEN <<>>
    ELSE (IF r > 0 THEN <<",">> ELSE <<>>)
         \o <<"(">> \o SubQuery(parentTable)
         \o ChildPlaceholders(1, K, idx) \o <<")">>
         \o ChildRows(r + 1, childRowCount, K, idx + (K - 1), parentTable)

buildBulkInsertParentChild(parentTable, parentColumns, childTable, childColumns, childRowCount) ==
    IF childRowCount = 0
    THEN buildBulkInsert(parentTable, parentColumns, 1)
    ELSE <<"WITH new_", parentTable, " AS (">>
         \o <<"INSERT INTO ", parentTable, "(">> \o Join(parentColumns, ", ")
         \o <<") VALUES ">>
         \o <<"(">> \o Placeholders(0, Len(parentColumns), 0, ", ")
         \o <<") RETURNING id) ">>
         \o <<"INSERT INTO ", childTable, "(">> \o Join(childColumns, ", ")
         \o <<") VALUES ">>
         \o ChildRows(0, childRowCount, Len(childColumns), Len(parentColumns), parentTable)

----------------------------------------------------------------------------
(* Reading a generated text back: what the database sees in it *)

RECURSIVE DigitsEnd(_, _)
DigitsEnd(s, i) == IF i <= Len(s) /\ IsDigit(s[i]) THEN DigitsEnd(s, i + 1) ELSE i

RECURSIVE Atoi(_, _, _)
Atoi(s, i, j) == IF j <= i THEN 0
                 ELSE Atoi(s, i, j - 1) * 10 + DigitVal(s[j - 1])

Ph(n) == <<"$", n>>
SubQ  == <<"subquery", 0>>

\* the elements of a finite set of integers, ascending
Sorted(S) ==
    [k \in 1..Cardinality(S) |-> CHOOSE x \in S : Cardinality({y \in S : y < x}) = k - 1]

Closers == {")", ") RETURNING id) ", ") VALUES "}

\* position j closes a bracket opened by "(" (not the sub-query's own ")")
IsCloser(s, j) ==
    /\ s[j] \in Closers
    /\ ~(j > 2 /\ s[j - 2] = "(select id from new_")

CloseOf(s, i) ==
    LET js == {j \in (i + 1)..Len(s) : IsCloser(s, j)}
    IN  IF js = {} THEN Len(s) + 1 ELSE CHOOSE j \in js : \A k \in js : j <= k

\* the "(" that open a value-tuple: all but those of a column list
TupleOpens(s) ==
    {i \in 1..Len(s) : /\ s[i] = "("
                        /\ CloseOf(s, i) <= Len(s)
                        /\ s[CloseOf(s, i)] # ") VALUES "}

ItemPositions(s, i) ==
    {k \in (i + 1)..(CloseOf(s, i) - 1) : s[k] = "$" \/ s[k] = "(select id from new_"}

ItemAt(s, k) ==
    IF s[k] = "$" THEN Ph(Atoi(s, k + 1, DigitsEnd(s, k + 1))) ELSE SubQ

\* the value-tuples of a text, in order; each a sequence of Ph(n) / SubQ
ValueTuples(s) ==
    LET os == Sorted(TupleOpens(s))
    IN  [t \in 1..Len(os) |->
           LET ks == Sorted(ItemPositions(s, os[t]))
           IN  [c \in 1..Len(ks) |-> ItemAt(s, ks[c])]]

\* the numbers of the $-placeholders of a text, left to right
PlaceholderNumbers(s) ==
    LET ks == Sorted({k \in 1..Len(s) : s[k] = "$"})
    IN  [c \in 1..Len(ks) |-> Atoi(s, ks[c] + 1, DigitsEnd(s, ks[c] + 1))]

Mentions(s, word) == \E i \in 1..Len(s) : s[i] = word

Iota(n) == [i \in 1..n |-> i]

----------------------------------------------------------------------------
(* TraceEvent, its sub-payloads and the library calls of the mappers *)

Nil == <<>>
Some(x) == <<x>>

EventTypes == {"PublishMessage", "RejectMessage", "DuplicateMessage", "DeliverMessage",
               "AddPeer", "RemovePeer", "Join", "Leave", "Graft", "Prune", "PeerScore"}
FlatTypes == EventTypes \ {"PeerScore"}

\* Identifier bytes.  enc = "mh": a multihash with digest d;  enc = "b64":
\* the base64 text of a multihash with digest d (d > 0) or of bytes that are
\* no multihash (d = 0);  enc = "raw": neither;  enc = "empty": no bytes.
Bytes(enc, d) == [enc |-> enc, d |-> d]
EmptyBytes == Bytes("empty", 0)
IDBytes(d) == {Bytes("mh", d), Bytes("b64", d), Bytes("b64", 0), Bytes("raw", 0)}

\* peer.IDFromBytes: the ID holds the bytes when they are a multihash,
\* otherwise the empty ID and an error
IDFromBytes(bytes) ==
    IF bytes.enc = "mh" THEN [err |-> FALSE, id |-> bytes]
    ELSE [err |-> TRUE, id |-> EmptyBytes]

\* base64.StdEncoding.DecodeString
Base64Decode(bytes) ==
    IF bytes.enc = "b64"
    THEN [err |-> FALSE, bytes |-> Bytes(IF bytes.d > 0 THEN "mh" ELSE "raw", bytes.d)]
    ELSE [err |-> TRUE, bytes |-> EmptyBytes]

\* peer.ID.String: the base58 text of the ID's bytes
Pretty == <<"QmPeerOne", "QmPeerTwo">>
IDString(id) == IF id.enc = "mh" THEN Pretty[id.d] ELSE ""

\* time.Unix(sec, nsec)
TimeUnix(sec, nsec) ==
    [sec |-> sec + (nsec \div 1000000000), nsec |-> nsec % 1000000000]

\* derefString that renders a nil pointer as "NULL"
derefStringNull(s, def) == IF s = Nil THEN "NULL" ELSE s[1]

\* the string a pointer points at, def for a nil pointer
derefString(s, def) == IF s = Nil THEN def ELSE s[1]

\* values of the []any argument list
Text(s) == <<"text", s>>
Time(t) == <<"time", t>>
Num(x)  == <<"num", x>>

TopicScore(topic, base) ==
    [Topic |-> topic, TimeInMesh |-> base, FirstMessageDeliveries |-> base + 1,
     MeshMessageDeliveries |-> base + 2, InvalidMessageDeliveries |-> base + 3]
TopicPool == <<TopicScore("ta", 10), TopicScore("tb", 20), TopicScore("tc", 30),
               TopicScore("td", 40), TopicScore("te", 50)>>
TopicLists == {SubSeq(TopicPool, 1, k) : k \in 0..MaxTopics}

Timestamps == {Nil, Some(2000000007)}
OptStrings(x) == {Nil, Some(x)}
EnvelopeIDs == IDBytes(1)
OtherIDs == IDBytes(2)

NoSub ==
    [MessageID |-> "", Topic |-> Nil, ReceivedFrom |-> EmptyBytes, Reason |-> Nil,
     PeerID |-> EmptyBytes, Proto |-> Nil, AppSpecificScore |-> 0,
     IPColocationFactor |-> 0, BehaviourPenalty |-> 0, Topics |-> <<>>]

\* the sub-payload messages of one event type
SubPayloads(T) ==
    CASE T = "PublishMessage" ->
           {[NoSub EXCEPT !.MessageID = "m1", !.Topic = t] : t \in OptStrings("t1")}
      [] T = "RejectMessage" ->
           {[NoSub EXCEPT !.MessageID = "m1", !.Topic = x[1], !.ReceivedFrom = x[2],
                          !.Reason = x[3]] :
              x \in OptStrings("t1") \X OtherIDs \X OptStrings("r1")}
      [] T \in {"DuplicateMessage", "DeliverMessage"} ->
           {[NoSub EXCEPT !.MessageID = "m1", !.Topic = x[1], !.ReceivedFrom = x[2]] :
              x \in OptStrings("t1") \X OtherIDs}
      [] T = "AddPeer" ->
           {[NoSub EXCEPT !.PeerID = x[1], !.Proto = x[2]] :
              x \in OtherIDs \X OptStrings("p1")}
      [] T = "RemovePeer" ->
           {[NoSub EXCEPT !.PeerID = i] : i \in OtherIDs}
      [] T \in {"Join", "Leave"} ->
           {[NoSub EXCEPT !.Topic = t] : t \in OptStrings("t1")}
      [] T \in {"Graft", "Prune"} ->
           {[NoSub EXCEPT !.Topic = x[1], !.PeerID = x[2]] :
              x \in OptStrings("t1") \X OtherIDs}
      [] T = "PeerScore" ->
           {[NoSub EXCEPT !.PeerID = x[1], !.Topics = x[2], !.AppSpecificScore = 1,
                          !.IPColocationFactor = 2, !.BehaviourPenalty = 3] :
              x \in OtherIDs \X TopicLists}

\* the other event type that the events handed to a mapper may declare or carry
Sibling == [T \in EventTypes |-> IF T = "Join" THEN "Leave" ELSE "Join"]

\* Payload names the sub-payload field that is set ("None": no field is set)
TraceEvent(ts, type, peerID, payload, sub) ==
    [Timestamp |-> ts, Type |-> type, PeerID |-> peerID, Payload |-> payload, Sub |-> sub]

NoEvent == TraceEvent(Nil, "", EmptyBytes, "None", NoSub)

Events(T) ==
    LET types == {T, Sibling[T]}
    IN  {TraceEvent(x[1], x[2], x[3], "None", NoSub) :
            x \in Timestamps \X types \X EnvelopeIDs}
        \cup
        UNION {{TraceEvent(x[1], x[2], x[3], P, x[4]) :
                   x \in Timestamps \X types \X EnvelopeIDs \X SubPayloads(P)} :
               P \in types}

\* ev.<T>: the sub-payload field of type T, Nil when unset
SubOf(e, T) == IF e.Payload = T THEN Some(e.Sub) ELSE Nil

----------------------------------------------------------------------------
(* eventDefs: table, columns and the second identifier of each mapper *)

eventDefs ==
    [T \in EventTypes |->
       CASE T = "PublishMessage" ->
              [Name |-> "publish_message_event", second |-> "",
               cols |-> <<"peer_id", "timestamp", "message_id", "topic">>]
         [] T = "RejectMessage" ->
              [Name |-> "reject_message_event", second |-> "ReceivedFrom",
               cols |-> <<"peer_id", "timestamp", "message_id", "topic",
                          "received_from", "reason">>]
         [] T = "DuplicateMessage" ->
              [Name |-> "duplicate_message_event", second |-> "ReceivedFrom",
               cols |-> <<"peer_id", "timestamp", "message_id", "topic", "received_from">>]
         [] T = "DeliverMessage" ->
              [Name |-> "deliver_message_event", second |-> "ReceivedFrom",
               cols |-> <<"peer_id", "timestamp", "message_id", "topic", "received_from">>]
         [] T = "AddPeer" ->
              [Name |-> "add_peer_event", second |-> "PeerID",
               cols |-> <<"peer_id", "timestamp", "other_peer_id", "proto">>]
         [] T = "RemovePeer" ->
              [Name |-> "remove_peer_event", second |-> "PeerID",
               cols |-> <<"peer_id", "timestamp", "other_peer_id">>]
         [] T = "Join" ->
              [Name |-> "join_event", second |-> "",
               cols |-> <<"peer_id", "timestamp", "topic">>]
         [] T = "Leave" ->
              [Name |-> "leave_event", second |-> "",
               cols |-> <<"peer_id", "timestamp", "topic">>]
         [] T = "Graft" ->
              [Name |-> "graft_event", second |-> "PeerID",
               cols |-> <<"peer_id", "timestamp", "topic", "other_peer_id">>]
         [] T = "Prune" ->
              [Name |-> "prune_event", second |-> "PeerID",
               cols |-> <<"peer_id", "timestamp", "topic", "other_peer_id">>]
         [] T = "PeerScore" ->
              [Name |-> "peer_score_event", second |-> "PeerID",
               cols |-> <<"peer_id", "timestamp", "other_peer_id", "app_specific_score",
                          "ip_colocation_factor", "behaviour_penalty">>]]

parentCols == eventDefs["PeerScore"].cols
childTable == "peer_score_topic"
childCols == <<"peer_score_event_id", "topic", "time_in_mesh", "first_message_deliveries",
               "mesh_message_deliveries", "invalid_message_deliveries">>

SecondBytes(T, sub) ==
    IF eventDefs[T].second = "ReceivedFrom" THEN sub.ReceivedFrom ELSE sub.PeerID

----------------------------------------------------------------------------
(* The flat mappers: one iteration of `for _, ev := range evs` *)

\* the values one surviving event appends, in the order of the appends
FlatTuple(T, e, sub, peerID, second) ==
    LET p  == Text(IDString(peerID))
        ts == Time(TimeUnix(0, e.Timestamp[1]))
        o  == Text(IDString(second))
        tp == Text(derefString(sub.Topic, ""))
        m  == Text(sub.MessageID)
    IN  CASE T = "PublishMessage" -> <<p, ts, m, tp>>
          [] T = "RejectMessage" -> <<p, ts, m, tp, o, Text(derefString(sub.Reason, ""))>>
          [] T \in {"DuplicateMessage", "DeliverMessage"} -> <<p, ts, m, tp, o>>
          [] T = "AddPeer" -> <<p, ts, o, Text(derefString(sub.Proto, ""))>>
          [] T = "RemovePeer" -> <<p, ts, o>>
          [] T \in {"Join", "Leave"} -> <<p, ts, tp>>
          [] T \in {"Graft", "Prune"} -> <<p, ts, tp, o>>

Skip(msg) == [outcome |-> msg, tuple |-> <<>>]

\* the iteration that appends peer_id before the second identifier is decoded
FlatMapEarlyAppend(T, e) ==
    IF e.Timestamp = Nil THEN Skip("no timestamp")
    ELSE IF SubOf(e, T) = Nil THEN Skip("no payload")
    ELSE LET sub == SubOf(e, T)[1]
             p   == IDFromBytes(e.PeerID)
             o   == IDFromBytes(SecondBytes(T, sub))
         IN  IF p.err THEN Skip("bad peer id")
             ELSE IF eventDefs[T].second # "" /\ o.err
                  THEN [outcome |-> "bad second peer id",
                        tuple |-> <<Text(IDString(p.id))>>]
             ELSE [outcome |-> "kept", tuple |-> FlatTuple(T, e, sub, p.id, o.id)]

\* the iteration that checks the payload before the timestamp
FlatMapPayloadFirst(T, e) ==
    IF SubOf(e, T) = Nil THEN Skip("no payload")
    ELSE IF e.Timestamp = Nil THEN Skip("no timestamp")
    ELSE LET sub == SubOf(e, T)[1]
             p   == IDFromBytes(e.PeerID)
             o   == IDFromBytes(SecondBytes(T, sub))
         IN  IF p.err THEN Skip("bad peer id")
             ELSE IF eventDefs[T].second # "" /\ o.err THEN Skip("bad second peer id")
             ELSE [outcome |-> "kept", tuple |-> FlatTuple(T, e, sub, p.id, o.id)]

\* the checks of one iteration, in the order of the code
FlatMap(T, e) ==
    IF e.Timestamp = Nil THEN Skip("no timestamp")
    ELSE IF SubOf(e, T) = Nil THEN Skip("no payload")
    ELSE LET sub == SubOf(e, T)[1]
             p   == IDFromBytes(e.PeerID)
             o   == IDFromBytes(SecondBytes(T, sub))
         IN  IF p.err THEN Skip("bad peer id")
             ELSE IF eventDefs[T].second # "" /\ o.err THEN Skip("bad second peer id")
             ELSE [outcome |-> "kept", tuple |-> FlatTuple(T, e, sub, p.id, o.id)]

----------------------------------------------------------------------------
(* The PeerScore mapper: one iteration *)

SkipPS(msg) == [outcome |-> msg, peerID |-> EmptyBytes, otherPeerID |-> EmptyBytes]

\* the two identifier decodes without the base64 fallback
PeerScoreDecodeNoFallback(e, sub) ==
    LET d1 == IDFromBytes(e.PeerID)
        d2 == IDFromBytes(sub.PeerID)
    IN  IF d1.err THEN SkipPS("bad peer id")
        ELSE IF d2.err THEN SkipPS("bad peer id")
        ELSE [outcome |-> "kept", peerID |-> d1.id, otherPeerID |-> d2.id]

\* the two identifier decodes with their base64 fallback; the fallback of
\* the second identifier assigns its result to peerID
PeerScoreDecode(e, sub) ==
    LET d1  == IDFromBytes(e.PeerID)
        f1  == Base64Decode(e.PeerID)
        d1b == IDFromBytes(f1.bytes)
        d2  == IDFromBytes(sub.PeerID)
        f2  == Base64Decode(sub.PeerID)
        d2b == IDFromBytes(f2.bytes)
        peerID1 == IF d1.err THEN d1b.id ELSE d1.id
    IN  IF d1.err /\ f1.err THEN SkipPS("guessing peer id encoding")
        ELSE IF d1.err /\ d1b.err THEN SkipPS("bad peer id")
        ELSE IF ~d2.err
             THEN [outcome |-> "kept", peerID |-> peerID1, otherPeerID |-> d2.id]
        ELSE IF f2.err THEN SkipPS("guessing peer id encoding")
        ELSE IF d2b.err THEN SkipPS("bad peer id")
        ELSE [outcome |-> "kept", peerID |-> d2b.id, otherPeerID |-> d2.id]

RECURSIVE ChildValues(_)
ChildValues(topics) ==
    IF Len(topics) = 0 THEN <<>>
    ELSE LET t == topics[1]
         IN  <<Text(t.Topic), Num(t.TimeInMesh), Num(t.FirstMessageDeliveries),
               Num(t.MeshMessageDeliveries), Num(t.InvalidMessageDeliveries)>>
             \o ChildValues(Tail(topics))

ParentValues(e, sub, peerID, otherPeerID) ==
    <<Text(IDString(peerID)), Time(TimeUnix(0, e.Timestamp[1])),
      Text(IDString(otherPeerID)), Num(sub.AppSpecificScore),
      Num(sub.IPColocationFactor), Num(sub.BehaviourPenalty)>>

\* the statement when childRowCount is never incremented
PeerScoreSQLNoCount(childRowCount) ==
    buildBulkInsertParentChild(eventDefs["PeerScore"].Name, parentCols,
                               childTable, childCols, 0)

PeerScoreSQL(childRowCount) ==
    buildBulkInsertParentChild(eventDefs["PeerScore"].Name, parentCols,
                               childTable, childCols, childRowCount)

SkipStmt(msg) == [outcome |-> msg, sql |-> <<>>, args |-> <<>>]

PeerScoreMap(e) ==
    IF e.Timestamp = Nil THEN SkipStmt("no timestamp")
    ELSE IF SubOf(e, "PeerScore") = Nil THEN SkipStmt("no payload")
    ELSE LET sub == SubOf(e, "PeerScore")[1]
             d   == PeerScoreDecode(e, sub)
         IN  IF d.outcome # "kept" THEN SkipStmt(d.outcome)
             ELSE [outcome |-> "kept",
                   sql |-> PeerScoreSQL(Len(sub.Topics)),
                   args |-> ParentValues(e, sub, d.peerID, d.otherPeerID)
                            \o ChildValues(sub.Topics)]

----------------------------------------------------------------------------
\* the builder call variables when no builder call is under test
NoCall ==
    [fn |-> "", table |-> "", columns |-> <<>>, childTable |-> "",
     childColumns |-> <<>>, rowCount |-> 0]

----------------------------------------------------------------------------
(* BatchInsert as a state machine over the range loop *)

Stmt(text, args) == [sql |-> text, args |-> args]

InitMap ==
    /\ et \in EventTypes
    /\ pc = "loop"
    /\ seen = 0
    /\ ev = NoEvent
    /\ outcome = ""
    /\ values = <<>>
    /\ rowCount = 0
    /\ b = <<>>
    /\ kept = <<>>
    /\ reterr = Some("not returned")
    \* no builder call and no schema call under test
    /\ call = NoCall /\ sql = <<>> /\ bpc = "idle"
    /\ spc = "idle" /\ tx = "none" /\ db = {} /\ db0 = {} /\ txdb = {}
    /\ ranged = {} /\ failure = Nil /\ commitCalled = FALSE /\ err = Nil
    /\ prev = Nil

\* the iteration in which a skipped event empties the values slice
FlatIterResetOnSkip ==
    /\ pc = "loop"
    /\ et \in FlatTypes
    /\ seen < MaxEvs
    /\ \E e \in Events(et) :
         LET m == FlatMap(et, e)
         IN  /\ ev' = e
             /\ seen' = seen + 1
             /\ outcome' = m.outcome
             /\ IF m.outcome = "kept"
                THEN /\ values' = values \o m.tuple
                     /\ rowCount' = rowCount + 1
                     /\ kept' = Append(kept, seen + 1)
                ELSE /\ values' = <<>>
                     /\ rowCount' = 0
                     /\ UNCHANGED kept
    /\ UNCHANGED <<et, pc, b, reterr>>

\* the iteration that puts the values of a surviving event before the
\* values of the earlier survivors
FlatIterPrepend ==
    /\ pc = "loop"
    /\ et \in FlatTypes
    /\ seen < MaxEvs
    /\ \E e \in Events(et) :
         LET m == FlatMap(et, e)
         IN  /\ ev' = e
             /\ seen' = seen + 1
             /\ outcome' = m.outcome
             /\ values' = m.tuple \o values
             /\ IF m.outcome = "kept"
                THEN /\ rowCount' = rowCount + 1
                     /\ kept' = Append(kept, seen + 1)
                ELSE UNCHANGED <<rowCount, kept>>
    /\ UNCHANGED <<et, pc, b, reterr>>

\* one iteration of a flat mapper's loop
FlatIter ==
    /\ pc = "loop"
    /\ et \in FlatTypes
    /\ seen < MaxEvs
    /\ \E e \in Events(et) :
         LET m == FlatMap(et, e)
         IN  /\ ev' = e
             /\ seen' = seen + 1
             /\ outcome' = m.outcome
             /\ values' = values \o m.tuple
             /\ IF m.outcome = "kept"
                THEN /\ rowCount' = rowCount + 1
                     /\ kept' = Append(kept, seen + 1)
                ELSE UNCHANGED <<rowCount, kept>>
    /\ UNCHANGED <<et, pc, b, reterr>>

\* end of a flat mapper's loop: build the statement, queue it, return
FlatQueue ==
    /\ pc = "loop"
    /\ et \in FlatTypes
    /\ b' = Append(b, Stmt(buildBulkInsert(eventDefs[et].Name, eventDefs[et].cols, rowCount),
                           values))
    /\ pc' = "done"
    /\ reterr' = Nil
    /\ UNCHANGED <<et, seen, ev, outcome, values, rowCount, kept>>

\* the iteration that adds the event's values to one statement shared by
\* all events
PeerScoreIterMerged ==
    /\ pc = "loop"
    /\ et = "PeerScore"
    /\ seen < MaxEvs
    /\ \E e \in Events(et) :
         LET m == PeerScoreMap(e)
         IN  /\ ev' = e
             /\ seen' = seen + 1
             /\ outcome' = m.outcome
             /\ IF m.outcome = "kept"
                THEN /\ b' = IF b = <<>>
                             THEN <<Stmt(m.sql, m.args)>>
                             ELSE <<Stmt(m.sql, b[1].args \o m.args)>>
                     /\ kept' = Append(kept, seen + 1)
                ELSE UNCHANGED <<b, kept>>
    /\ UNCHANGED <<et, pc, values, rowCount, reterr>>

\* one iteration of the PeerScore mapper's loop
PeerScoreIter ==
    /\ pc = "loop"
    /\ et = "PeerScore"
    /\ seen < MaxEvs
    /\ \E e \in Events(et) :
         LET m == PeerScoreMap(e)
         IN  /\ ev' = e
             /\ seen' = seen + 1
             /\ outcome' = m.outcome
             /\ IF m.outcome = "kept"
                THEN /\ b' = Append(b, Stmt(m.sql, m.args))
                     /\ kept' = Append(kept, seen + 1)
                ELSE UNCHANGED <<b, kept>>
    /\ UNCHANGED <<et, pc, values, rowCount, reterr>>

\* end of the PeerScore mapper's loop: return b
PeerScoreReturn ==
    /\ pc = "loop"
    /\ et = "PeerScore"
    /\ pc' = "done"
    /\ reterr' = Nil
    /\ UNCHANGED <<et, seen, ev, outcome, values, rowCount, b, kept>>

----------------------------------------------------------------------------
(* ensureDatabaseSchema *)

\* the objects a DDL text creates: <<table, "">> is the table, <<table, col>>
\* the index idx_<table>_<col>
IndexedCols(T) ==
    CASE T = "PublishMessage" -> <<"timestamp", "peer_id", "topic">>
      [] T \in {"RejectMessage", "DuplicateMessage", "DeliverMessage"} ->
           <<"timestamp", "peer_id", "topic", "received_from">>
      [] T \in {"AddPeer", "RemovePeer"} -> <<"timestamp", "peer_id", "other_peer_id">>
      [] T \in {"Join", "Leave"} -> <<"timestamp", "peer_id", "topic">>
      [] T \in {"Graft", "Prune"} -> <<"timestamp", "peer_id", "topic", "other_peer_id">>
      [] T = "PeerScore" -> <<"timestamp", "peer_id", "other_peer_id">>

CreateAll(table, cols) == <<<<table, "">>>> \o [k \in 1..Len(cols) |-> <<table, cols[k]>>]

\* EventDef.DDL: the CREATE ... IF NOT EXISTS statements, in order
DDL(T) ==
    CreateAll(eventDefs[T].Name, IndexedCols(T))
    \o (IF T = "PeerScore"
        THEN CreateAll(childTable, <<"peer_score_event_id", "topic">>)
        ELSE <<>>)

\* tx.Exec of a DDL text that succeeds: every statement creates its object
\* unless it exists
ExecOK(objects, ddl) == objects \cup {ddl[k] : k \in 1..Len(ddl)}

AllObjects == UNION {ExecOK({}, DDL(T)) : T \in EventTypes}

\* the SQLSTATEs of a failure of the connection or of the session
Causes == {"08006", "42501"}

\* a DDL text whose CREATE statements would lack IF NOT EXISTS
IfNotExistsButPeerScore(T) == T \in EventTypes \ {"PeerScore"}

\* every CREATE TABLE and CREATE INDEX of every DDL text has IF NOT EXISTS
IfNotExists(T) == T \in EventTypes

\* the SQLSTATE the server answers to the DDL text of T, "" for none:
\* duplicate_table for a CREATE without IF NOT EXISTS of an existing object
ExecError(objects, T) ==
    IF ~IfNotExists(T) /\ \E k \in 1..Len(DDL(T)) : DDL(T)[k] \in objects
    THEN "42P07"
    ELSE ""

\* the errors an Exec of the DDL text of T may return
ExecErrors(objects, T) ==
    IF ExecError(objects, T) = "" THEN Causes ELSE {ExecError(objects, T)}

Failure(op, cause) == Some([op |-> op, cause |-> cause])
\* fmt.Errorf("<msg>: %w", err), with et.Key() for the exec message
Errorf(msg, key, cause) == Some([msg |-> msg, key |-> key, cause |-> cause])

InitSchema ==
    /\ spc = "begin"
    /\ tx = "none"
    /\ db \in {{}, ExecOK({}, DDL("PeerScore")), AllObjects}
    /\ db0 = db
    /\ txdb = {}
    /\ ranged = {}
    /\ failure = Nil
    /\ commitCalled = FALSE
    /\ err = Nil
    /\ prev = Nil
    \* no builder call and no mapper under test
    /\ call = NoCall /\ sql = <<>> /\ bpc = "idle"
    /\ et = "" /\ pc = "idle" /\ seen = 0 /\ ev = NoEvent /\ outcome = ""
    /\ values = <<>> /\ rowCount = 0 /\ b = <<>> /\ kept = <<>>
    /\ reterr = Some("not returned")

\* conn.Begin and its error return
Begin ==
    /\ spc = "begin"
    /\ \/ /\ tx' = "open"
          /\ txdb' = db
          /\ spc' = "loop"
          /\ UNCHANGED <<failure, err>>
       \/ \E c \in Causes :
          /\ failure' = Failure("Begin", c)
          /\ err' = Errorf("begin transaction", "", c)
          /\ spc' = "done"
          /\ UNCHANGED <<tx, txdb>>
    /\ UNCHANGED <<db, db0, ranged, commitCalled, prev>>

\* the loop iteration that does not return on an Exec error
ExecDDLIgnoreError ==
    /\ spc = "loop"
    /\ \E T \in EventTypes \ ranged :
         /\ ranged' = ranged \cup {T}
         /\ IF Len(DDL(T)) = 0
            THEN UNCHANGED <<txdb, failure>>
            ELSE \/ /\ ExecError(txdb, T) = ""
                    /\ txdb' = ExecOK(txdb, DDL(T))
                    /\ UNCHANGED failure
                 \/ \E c \in ExecErrors(txdb, T) :
                    /\ failure' = Failure("Exec", c)
                    /\ UNCHANGED txdb
    /\ UNCHANGED <<spc, tx, err, db, db0, commitCalled, prev>>

\* one iteration of `for et, tbl := range eventDefs` (every entry has a
\* BatchInsert; an entry without DDL is skipped); on an Exec error the
\* function returns and the deferred tx.Rollback discards the transaction
ExecDDL ==
    /\ spc = "loop"
    /\ \E T \in EventTypes \ ranged :
         /\ ranged' = ranged \cup {T}
         /\ IF Len(DDL(T)) = 0
            THEN UNCHANGED <<txdb, tx, failure, err, spc>>
            ELSE \/ /\ ExecError(txdb, T) = ""
                    /\ txdb' = ExecOK(txdb, DDL(T))
                    /\ UNCHANGED <<tx, failure, err, spc>>
                 \/ \E c \in ExecErrors(txdb, T) :
                    /\ failure' = Failure("Exec", c)
                    /\ err' = Errorf("exec ddl for", T, c)
                    /\ tx' = "rolledback"
                    /\ txdb' = {}
                    /\ spc' = "done"
    /\ UNCHANGED <<db, db0, commitCalled, prev>>

\* tx.Commit after the loop; the deferred tx.Rollback finds the transaction
\* closed either way
Commit ==
    /\ spc = "loop"
    /\ ranged = EventTypes
    /\ commitCalled' = TRUE
    /\ spc' = "done"
    /\ \/ /\ tx' = "committed"
          /\ db' = txdb
          /\ UNCHANGED <<failure, err>>
       \/ \E c \in Causes :
          /\ failure' = Failure("Commit", c)
          /\ err' = Errorf("commit transaction", "", c)
          /\ tx' = "aborted"
          /\ UNCHANGED db
    /\ UNCHANGED <<db0, txdb, ranged, prev>>

\* connect on a later start of the process: ensureDatabaseSchema is called
\* again on the database the previous call left
CallAgain ==
    /\ spc = "done"
    /\ prev = Nil
    /\ prev' = Some([ok |-> (err = Nil), db |-> db, db0 |-> db0])
    /\ spc' = "begin"
    /\ tx' = "none"
    /\ db0' = db
    /\ txdb' = {}
    /\ ranged' = {}
    /\ failure' = Nil
    /\ commitCalled' = FALSE
    /\ err' = Nil
    /\ UNCHANGED db

----------------------------------------------------------------------------
(* Builder specification: the inputs are drawn in Init, one action per     *)
(* builder applies it.                                                     *)

ColumnPool == <<"c1", "c2", "c3", "c4", "c5", "c6", "c7">>
Columns(K) == SubSeq(ColumnPool, 1, K)

BuilderCalls ==
    [fn : {"buildBulkInsert"}, table : {"t", "join_event"}, columns : {Columns(K) : K \in 1..MaxCols},
     childTable : {""}, childColumns : {<<>>}, rowCount : 0..MaxRows]
    \cup
    [fn : {"buildBulkInsertParentChild"}, table : {"p"},
     columns : {Columns(K) : K \in 1..MaxCols},
     childTable : {"ch"}, childColumns : {Columns(K) : K \in 1..MaxCols},
     rowCount : 0..MaxRows]

InitBuild ==
    /\ call \in BuilderCalls
    /\ sql = <<>>
    /\ bpc = "call"
    \* no mapper and no schema call under test
    /\ et = "" /\ pc = "idle" /\ seen = 0 /\ ev = NoEvent /\ outcome = ""
    /\ values = <<>> /\ rowCount = 0 /\ b = <<>> /\ kept = <<>>
    /\ reterr = Some("not returned")
    /\ spc = "idle" /\ tx = "none" /\ db = {} /\ db0 = {} /\ txdb = {}
    /\ ranged = {} /\ failure = Nil /\ commitCalled = FALSE /\ err = Nil
    /\ prev = Nil

CallBuildBulkInsert ==
    /\ bpc = "call"
    /\ call.fn = "buildBulkInsert"
    /\ sql' = buildBulkInsert(call.table, call.columns, call.rowCount)
    /\ bpc' = "ret"
    /\ UNCHANGED call

CallBuildBulkInsertParentChild ==
    /\ bpc = "call"
    /\ call.fn = "buildBulkInsertParentChild"
    /\ sql' = buildBulkInsertParentChild(call.table, call.columns,
                                         call.childTable, call.childColumns, call.rowCount)
    /\ bpc' = "ret"
    /\ UNCHANGED call

NextBuild ==
    \/ CallBuildBulkInsert /\ UNCHANGED <<mapVars, schemaVars>>
    \/ CallBuildBulkInsertParentChild /\ UNCHANGED <<mapVars, schemaVars>>

SpecBuild == InitBuild /\ [][NextBuild]_vars

----------------------------------------------------------------------------
(* Mapper specification: one BatchInsert call on an input drawn event by   *)
(* event.                                                                  *)

NextMap ==
    \/ FlatIter /\ UNCHANGED <<buildVars, schemaVars>>
    \/ FlatQueue /\ UNCHANGED <<buildVars, schemaVars>>
    \/ PeerScoreIter /\ UNCHANGED <<buildVars, schemaVars>>
    \/ PeerScoreReturn /\ UNCHANGED <<buildVars, schemaVars>>

SpecMap == InitMap /\ [][NextMap]_vars

----------------------------------------------------------------------------
(* Schema specification: one ensureDatabaseSchema call on a connection     *)
(* whose calls may fail.                                                   *)

NextSchema ==
    \/ Begin /\ UNCHANGED <<buildVars, mapVars>>
    \/ ExecDDL /\ UNCHANGED <<buildVars, mapVars>>
    \/ Commit /\ UNCHANGED <<buildVars, mapVars>>
    \/ CallAgain /\ UNCHANGED <<buildVars, mapVars>>

SpecSchema == InitSchema /\ [][NextSchema]_vars

----------------------------------------------------------------------------
\* C1: for N >= 1 rows and K >= 1 columns buildBulkInsert emits exactly N
\* value-tuples of K placeholders each, and the placeholders read left to
\* right are $1, $2, ..., $(N*K), row-major, none skipped or repeated.
C1_FlatPlaceholders ==
    (bpc = "ret" /\ call.fn = "buildBulkInsert" /\ call.rowCount >= 1) =>
        LET K  == Len(call.columns)
            N  == call.rowCount
            ts == ValueTuples(sql)
        IN  /\ Len(ts) = N
            /\ \A r \in 1..N :
                  /\ Len(ts[r]) = K
                  /\ \A c \in 1..K : ts[r][c] = Ph((r - 1) * K + c)
            /\ PlaceholderNumbers(sql) = Iota(N * K)

C1_Witness ==
    /\ bpc = "ret" /\ call.fn = "buildBulkInsert"
    /\ call.rowCount = 3 /\ Len(call.columns) = 2
    /\ PlaceholderNumbers(sql) = <<1, 2, 3, 4, 5, 6>>

\* C8: for C >= 1 child rows, P parent columns and K child columns
\* buildBulkInsertParentChild emits one parent tuple $1..$P inside the named
\* intermediate result and C child tuples, each starting with the sub-query
\* on that result followed by K-1 placeholders continuing the numbering, so
\* that all placeholders are exactly $1..$(P + C*(K-1)).
C8_ParentChildPlaceholders ==
    (bpc = "ret" /\ call.fn = "buildBulkInsertParentChild" /\ call.rowCount >= 1) =>
        LET P  == Len(call.columns)
            K  == Len(call.childColumns)
            C  == call.rowCount
            ts == ValueTuples(sql)
        IN  /\ SubSeq(sql, 1, 3) = <<"WITH new_", call.table, " AS (">>
            /\ Len(ts) = 1 + C
            /\ ts[1] = [c \in 1..P |-> Ph(c)]
            /\ \A r \in 1..C :
                  /\ Len(ts[1 + r]) = K
                  /\ ts[1 + r][1] = SubQ
                  /\ \A c \in 2..K : ts[1 + r][c] = Ph(P + (r - 1) * (K - 1) + (c - 1))
            /\ PlaceholderNumbers(sql) = Iota(P + C * (K - 1))

C8_Witness ==
    /\ bpc = "ret" /\ call.fn = "buildBulkInsertParentChild"
    /\ call.rowCount = 2 /\ Len(call.columns) = 2 /\ Len(call.childColumns) = 3
    /\ PlaceholderNumbers(sql) = <<1, 2, 3, 4, 5, 6>>
    /\ ValueTuples(sql)[3][1] = SubQ

----------------------------------------------------------------------------
(* Properties of the mappers *)

DirectOK(bytes) == bytes.enc = "mh"
FallbackOK(bytes) == bytes.enc = "b64" /\ bytes.d > 0
\* the canonical string of the identifier that bytes encode
Canonical(bytes) == Pretty[bytes.d]

LastStmt == b[Len(b)]

\* C2: a flat mapper queues a statement only when at least one event
\* survives; no INSERT with zero value-tuples is queued.
C2_NoEmptyStatement ==
    (pc = "done" /\ et \in FlatTypes) =>
        /\ (kept = <<>> => b = <<>>)
        /\ \A k \in 1..Len(b) : Len(ValueTuples(b[k].sql)) >= 1

\* C3: the argument list queued with a statement has as many values as the
\* statement has $-placeholders; in a flat mapper the values slice holds
\* R*K values after every iteration, R the number of surviving events.
C3_ArgsMatchPlaceholders ==
    /\ et \in FlatTypes =>
          /\ rowCount = Len(kept)
          /\ Len(values) = Len(kept) * Len(eventDefs[et].cols)
    /\ \A k \in 1..Len(b) :
          Len(b[k].args) = Len(PlaceholderNumbers(b[k].sql))
    /\ (et \in FlatTypes /\ pc = "done") =>
          Len(b) = 1 /\ Len(b[1].args) = Len(kept) * Len(eventDefs[et].cols)

C3_Witness ==
    /\ et = "RejectMessage" /\ pc = "done" /\ seen = 2
    /\ outcome = "bad second peer id" /\ DirectOK(ev.PeerID)
    /\ Len(kept) = 1
    /\ Len(b[1].args) = 6 /\ PlaceholderNumbers(b[1].sql) = Iota(6)

\* C4: an event whose declared Type's sub-payload is unset is skipped by
\* every mapper, also when a sibling payload is set.
C4_DeclaredPayloadRequired ==
    (seen > 0 /\ ev.Payload # ev.Type) => outcome # "kept"

\* C5: in every mapper an event without Timestamp adds no value, no row and
\* no statement, whatever its payload and identifiers; it is skipped for the
\* missing timestamp, before the payload and identifier checks.
C5_NoTimestampExcluded ==
    [][(seen' = seen + 1 /\ ev'.Timestamp = Nil) =>
          /\ outcome' = "no timestamp"
          /\ values' = values /\ rowCount' = rowCount
          /\ b' = b /\ kept' = kept]_vars

C5_Witness ==
    /\ seen = 2 /\ ev.Timestamp = Nil
    /\ ev.Payload = et /\ ev.Type = et
    /\ DirectOK(ev.PeerID) /\ DirectOK(ev.Sub.PeerID)
    /\ et = "PeerScore"
    /\ outcome = "no timestamp" /\ Len(b) = 1

\* C6: a surviving PeerScore event's parent tuple has peer_id = canonical
\* string of the envelope PeerID and other_peer_id = canonical string of the
\* sub-payload's PeerID, for direct and for base64-fallback decodes.
C6_PeerScoreIdentifiers ==
    (et = "PeerScore" /\ seen > 0 /\ outcome = "kept") =>
        /\ LastStmt.args[1] = Text(Canonical(ev.PeerID))
        /\ LastStmt.args[3] = Text(Canonical(ev.Sub.PeerID))

\* C7: the PeerScore mapper keeps an event iff each of its two identifiers
\* decodes directly or after a base64 decode; a flat mapper skips an event
\* with an identifier that only decodes after a base64 decode.
C7_Base64Asymmetry ==
    (seen > 0 /\ ev.Timestamp # Nil /\ ev.Payload = et) =>
        IF et = "PeerScore"
        THEN (outcome = "kept") <=>
                /\ (DirectOK(ev.PeerID) \/ FallbackOK(ev.PeerID))
                /\ (DirectOK(ev.Sub.PeerID) \/ FallbackOK(ev.Sub.PeerID))
        ELSE (\/ FallbackOK(ev.PeerID)
              \/ (eventDefs[et].second # "" /\ FallbackOK(SecondBytes(et, ev.Sub))))
             => outcome # "kept"

C7_Witness ==
    /\ et = "PeerScore" /\ seen > 0 /\ outcome = "kept"
    /\ FallbackOK(ev.PeerID) /\ FallbackOK(ev.Sub.PeerID)

\* C9: a surviving PeerScore event with n TopicScore entries queues one
\* statement with one parent tuple of 6 values and n child tuples of 5 bound
\* values each, in Topics order, every child tuple starting with the
\* sub-query; with n = 0 the statement is a flat insert of one value-tuple
\* that does not mention the child table.
C9_PeerScoreStatement ==
    (et = "PeerScore" /\ seen > 0 /\ outcome = "kept") =>
        LET nT == Len(ev.Sub.Topics)
            ts == ValueTuples(LastStmt.sql)
            a  == LastStmt.args
        IN  /\ Len(b) = Len(kept)
            /\ Len(a) = 6 + 5 * nT
            /\ Len(ts) = 1 + nT
            /\ ts[1] = [c \in 1..6 |-> Ph(c)]
            /\ \A k \in 1..nT :
                  LET t == ev.Sub.Topics[k]
                      o == 6 + 5 * (k - 1)
                  IN  /\ Len(ts[1 + k]) = 6
                      /\ ts[1 + k][1] = SubQ
                      /\ \A c \in 2..6 : ts[1 + k][c] = Ph(o + c - 1)
                      /\ a[o + 1] = Text(t.Topic)
                      /\ a[o + 2] = Num(t.TimeInMesh)
                      /\ a[o + 3] = Num(t.FirstMessageDeliveries)
                      /\ a[o + 4] = Num(t.MeshMessageDeliveries)
                      /\ a[o + 5] = Num(t.InvalidMessageDeliveries)
            /\ (nT = 0) => /\ ~Mentions(LastStmt.sql, childTable)
                           /\ LastStmt.sql[1] = "INSERT INTO "
            /\ (nT > 0) => /\ Mentions(LastStmt.sql, childTable)
                           /\ LastStmt.sql[1] = "WITH new_"

C9_Witness ==
    /\ et = "PeerScore" /\ seen > 0 /\ outcome = "kept"
    /\ Len(ev.Sub.Topics) = 2
    /\ Len(ValueTuples(LastStmt.sql)) = 3
    /\ LastStmt.args[7] = Text("ta") /\ LastStmt.args[12] = Text("tb")

----------------------------------------------------------------------------
(* Properties of ensureDatabaseSchema *)

\* C10: ensureDatabaseSchema commits only if every DDL Exec succeeded; if
\* Begin, an Exec or Commit fails it returns an error wrapping the cause,
\* runs no DDL after the failure, never calls Commit after a failed Exec,
\* and leaves no transaction open and no DDL effect in the database.
C10_CommitOnlyIfAllSucceed ==
    /\ commitCalled => (failure = Nil \/ failure[1].op = "Commit")
    /\ tx = "committed" => (failure = Nil /\ ranged = EventTypes /\ spc = "done")
    /\ (failure # Nil /\ failure[1].op = "Exec") => spc = "done"
    /\ spc = "done" =>
          IF failure = Nil
          THEN err = Nil /\ tx = "committed"
          ELSE /\ err # Nil
               /\ err[1].cause = failure[1].cause
               /\ tx \notin {"open", "committed"}
               /\ db = db0

C10_Witness ==
    /\ spc = "done" /\ failure # Nil /\ failure[1].op = "Exec"
    /\ Cardinality(ranged) = 3
    /\ tx = "rolledback" /\ db0 = {} /\ db = {}
    /\ err # Nil /\ err[1].msg = "exec ddl for" /\ ~commitCalled

\* C11: two ensureDatabaseSchema calls in sequence, the first on an empty
\* database, both succeed unless the connection fails, and the second call
\* leaves the set of tables and indexes as the first call left it, in
\* whatever order the registry entries are ranged over.
ConnectionFailed == failure # Nil /\ failure[1].cause \in Causes

C11_SecondCallNoChange ==
    /\ (spc = "done" /\ prev = Nil /\ db0 = {} /\ ~ConnectionFailed) =>
          err = Nil /\ db = AllObjects
    /\ (spc = "done" /\ prev # Nil /\ prev[1].db0 = {} /\ prev[1].ok
        /\ ~ConnectionFailed) =>
          err = Nil /\ tx = "committed" /\ db = prev[1].db

C11_Witness ==
    /\ spc = "done" /\ prev # Nil
    /\ prev[1].db0 = {} /\ prev[1].ok /\ prev[1].db = AllObjects
    /\ err = Nil /\ tx = "committed" /\ ranged = EventTypes
    /\ db = AllObjects

----------------------------------------------------------------------------
(* Properties of the mappers that relate the output to the input order *)

\* the timestamp column value of an event with Timestamp = ns
ExpectedTime(e) ==
    Time([sec |-> e.Timestamp[1] \div 1000000000, nsec |-> e.Timestamp[1] % 1000000000])

\* C12: the PeerScore mapper queues one statement per surviving event, in
\* input order, and the values of a statement are those of its one event.
C12_OneStatementPerEvent ==
    /\ [](et = "PeerScore" =>
            /\ Len(b) = Len(kept)
            /\ \A i, j \in 1..Len(kept) : i < j => kept[i] < kept[j])
    /\ [][(et = "PeerScore" /\ seen' = seen + 1) =>
            IF outcome' = "kept"
            THEN /\ Len(b') = Len(b) + 1
                 /\ SubSeq(b', 1, Len(b)) = b
                 /\ kept' = Append(kept, seen')
                 /\ LET a  == b'[Len(b')].args
                        ts == ev'.Sub.Topics
                    IN  /\ Len(a) = 6 + 5 * Len(ts)
                        /\ a[2] = ExpectedTime(ev')
                        /\ a[4] = Num(ev'.Sub.AppSpecificScore)
                        /\ a[5] = Num(ev'.Sub.IPColocationFactor)
                        /\ a[6] = Num(ev'.Sub.BehaviourPenalty)
                        /\ \A k \in 1..Len(ts) :
                              a[6 + 5 * (k - 1) + 1] = Text(ts[k].Topic)
            ELSE b' = b /\ kept' = kept]_vars

C12_Witness ==
    /\ et = "PeerScore" /\ pc = "done" /\ seen = 2
    /\ kept = <<1, 2>> /\ Len(b) = 2
    /\ Len(b[1].args) = 16 /\ Len(b[2].args) = 6

\* an event that passes the checks of the mapper of type T: it has a
\* Timestamp, the payload of T, and identifiers that decode
Eligible(T, e) ==
    /\ e.Timestamp # Nil
    /\ e.Payload = T
    /\ IF T = "PeerScore"
       THEN /\ (DirectOK(e.PeerID) \/ FallbackOK(e.PeerID))
            /\ (DirectOK(e.Sub.PeerID) \/ FallbackOK(e.Sub.PeerID))
       ELSE /\ DirectOK(e.PeerID)
            /\ (eventDefs[T].second # "" => DirectOK(SecondBytes(T, e.Sub)))

\* C13: BatchInsert returns a nil error, and its output is the output for
\* the input without the ineligible events: an ineligible event changes
\* nothing, an eligible event adds its tuple (its statement, for PeerScore)
\* after the tuples of the earlier survivors, which stay as they are.
C13_DropsSilentAndIsolated ==
    /\ [](pc = "done" => reterr = Nil)
    /\ [][(seen' = seen + 1) =>
            IF Eligible(et, ev')
            THEN /\ outcome' = "kept"
                 /\ kept' = Append(kept, seen')
                 /\ IF et = "PeerScore"
                    THEN Len(b') = Len(b) + 1 /\ SubSeq(b', 1, Len(b)) = b
                    ELSE /\ rowCount' = rowCount + 1
                         /\ Len(values') = Len(values) + Len(eventDefs[et].cols)
                         /\ SubSeq(values', 1, Len(values)) = values
                         /\ b' = b
            ELSE /\ outcome' # "kept"
                 /\ values' = values /\ rowCount' = rowCount
                 /\ b' = b /\ kept' = kept]_vars
    /\ [][(pc = "loop" /\ pc' = "done") =>
            IF et = "PeerScore"
            THEN b' = b
            ELSE /\ Len(b') = 1 /\ b'[1].args = values
                 /\ Len(ValueTuples(b'[1].sql)) = Len(kept)]_vars

C13_Witness ==
    /\ et = "DuplicateMessage" /\ pc = "done" /\ seen = 2
    /\ kept = <<1>> /\ outcome = "bad second peer id"
    /\ reterr = Nil
    /\ Len(b) = 1 /\ Len(b[1].args) = 5

\* the column names between "(" and ") VALUES " of a flat statement
ColumnsOf(text) ==
    LET close == CHOOSE i \in 1..Len(text) : text[i] = ") VALUES "
        IsName(tok) == tok # ", "
    IN  SelectSeq(SubSeq(text, 4, close - 1), IsName)

\* C14: a valid PublishMessage event yields the tuple (canonical PeerID
\* string, time of the epoch-nanosecond Timestamp, MessageID, Topic) under
\* the columns peer_id, timestamp, message_id, topic in this order; an absent
\* Topic is stored as the empty string and the event is kept.
C14_PublishTuple ==
    /\ [][(et = "PublishMessage" /\ seen' = seen + 1 /\ Eligible(et, ev')) =>
            /\ outcome' = "kept"
            /\ SubSeq(values', Len(values) + 1, Len(values')) =
                 << Text(Canonical(ev'.PeerID)),
                    ExpectedTime(ev'),
                    Text(ev'.Sub.MessageID),
                    Text(IF ev'.Sub.Topic = Nil THEN "" ELSE ev'.Sub.Topic[1]) >>]_vars
    /\ []((et = "PublishMessage" /\ pc = "done") =>
            /\ ColumnsOf(b[1].sql) = <<"peer_id", "timestamp", "message_id", "topic">>
            /\ b[1].sql[2] = "publish_message_event"
            /\ b[1].args = values)

C14_Witness ==
    /\ et = "PublishMessage" /\ pc = "done" /\ seen = 2
    /\ kept = <<1, 2>>
    /\ ev.Sub.Topic = Nil
    /\ b[1].args[8] = Text("")
    /\ b[1].args[7] = Text("m1")
    /\ b[1].args[5] = Text("QmPeerOne")

\* the value the mapper of type T stores under the column col for event e
ColValue(T, col, e) ==
    CASE col = "peer_id" -> Text(Canonical(e.PeerID))
      [] col = "timestamp" -> ExpectedTime(e)
      [] col = "message_id" -> Text(e.Sub.MessageID)
      [] col = "topic" -> Text(IF e.Sub.Topic = Nil THEN "" ELSE e.Sub.Topic[1])
      [] col \in {"received_from", "other_peer_id"} ->
           Text(Canonical(SecondBytes(T, e.Sub)))
      [] col = "reason" -> Text(IF e.Sub.Reason = Nil THEN "" ELSE e.Sub.Reason[1])
      [] col = "proto" -> Text(IF e.Sub.Proto = Nil THEN "" ELSE e.Sub.Proto[1])

\* C15: a flat mapper of K columns with at least one surviving event queues
\* exactly one statement with the tuples of all survivors in input order:
\* the values of the i-th survivor are the arguments (i-1)*K+1 .. i*K, in
\* column order, and the i-th value-tuple of the statement is
\* ($((i-1)*K+1), ..., $(i*K)).
C15_FlatStatementOrder ==
    /\ [][(et \in FlatTypes /\ seen' = seen + 1 /\ outcome' = "kept") =>
            LET K == Len(eventDefs[et].cols)
                i == Len(kept) + 1
            IN  /\ kept' = Append(kept, seen')
                /\ Len(values') = i * K
                /\ SubSeq(values', 1, (i - 1) * K) = values
                /\ \A c \in 1..K :
                      values'[(i - 1) * K + c] = ColValue(et, eventDefs[et].cols[c], ev')]_vars
    /\ []((et \in FlatTypes /\ pc = "done" /\ Len(kept) >= 1) =>
            LET K  == Len(eventDefs[et].cols)
                ts == ValueTuples(b[1].sql)
            IN  /\ Len(b) = 1
                /\ b[1].args = values
                /\ ColumnsOf(b[1].sql) = eventDefs[et].cols
                /\ Len(ts) = Len(kept)
                /\ \A i \in 1..Len(kept) :
                      /\ Len(ts[i]) = K
                      /\ \A c \in 1..K : ts[i][c] = Ph((i - 1) * K + c))

C15_Witness ==
    /\ et = "Graft" /\ pc = "done" /\ seen = 2
    /\ kept = <<1, 2>>
    /\ Len(b) = 1 /\ Len(b[1].args) = 8
    /\ b[1].args[3] # b[1].args[7]
    /\ ValueTuples(b[1].sql) = << <<Ph(1), Ph(2), Ph(3), Ph(4)>>,
                                  <<Ph(5), Ph(6), Ph(7), Ph(8)>> >>

====
